---- MODULE Spec2Model ----
(***************************************************************************)
(* Model of the zk-img-halo2 crate (backend/zk-img-halo2/src).  Each       *)
(* operation of the crate is one "program"; Init picks the program and     *)
(* its inputs, the actions are the steps of its code.                      *)
(***************************************************************************)
EXTENDS Integers, Sequences, FiniteSets, TLC

VARIABLES
    prog,             \* the operation being run
    transformations,  \* fuse_operations: the input slice
    fused,            \* fuse_operations: the output vector
    i,                \* fuse_operations: the scan index (0-based)
    fuse_pc,          \* fuse_operations: "loop" | "done" | "idle"
    hd,               \* HDProcessor: [tile_size, max_tiles]
    width,            \* tile_hd_image: argument (u32)
    height,           \* tile_hd_image: argument (u32)
    tiles,            \* tile_hd_image: the vector being built
    x,                \* tile_hd_image: next value of the inner step_by iterator
    y,                \* tile_hd_image: current value of the outer step_by iterator
    tile_pc,          \* tile_hd_image: "outer" | "inner" | "done" | "panic" | "idle"
    image,            \* codec: the DynamicImage given to image_to_field_matrix
    matrix,           \* codec: the field matrix, Vec<Vec<[Fp; 3]>>
    decoded,          \* codec: the image returned by field_matrix_to_image
    codec_pc,         \* codec: "encode" | "decode" | "done" | "panic" | "idle"
    max_size,         \* validate_image_for_zk: argument (usize)
    validated,        \* validate_image_for_zk: "Ok" | "Err" | "Panic" | "none"
    validate_pc,      \* validate_image_for_zk: "call" | "done" | "idle"
    proof,            \* verify: the proof bytes
    public_inputs,    \* verify: the public inputs
    verified,         \* verify: "Ok(true)" | "Ok(false)" | "Err" | "none"
    verify_pc,        \* verify: "call" | "done" | "idle"
    chain,            \* recursive chain: the RecursiveZKIMGCircuit links
    link,             \* recursive chain: links synthesized so far
    chain_result,     \* recursive chain: "Ok" | "Err" | "none"
    chain_pc,         \* recursive chain: "synthesize" | "done" | "idle"
    circuit,          \* ZKIMGCircuit: [image_pixels, transformation_params]
    instance,         \* ZKIMGCircuit: the public instance column (rows 0, 1)
    input_digest,     \* synthesize: input_hash, the digest of hash_image
    transformed_pixels, \* synthesize: the result of apply_transformations
    output_digest,    \* synthesize: output_hash, the digest of hash_image_output
    satisfied,        \* synthesize: whether the instance constraints hold
    circuit_pc,       \* synthesize: "hash_input" | "apply" | "hash_output" |
                      \*             "constrain" | "done" | "idle"
    setup_pc,         \* setup, per request: "call" | "vk" | "pk" | "done" | "idle"
    requested,        \* setup, per request: the circuit shape
    returned,         \* setup, per request: the (pk, vk) pair returned
    keygen_runs,      \* setup: how often keygen_vk ran, per shape
    circuit_cache,    \* ZKIMGSystem.circuit_cache: the keys it holds
    proofs,           \* ProofAggregator.proofs
    workers,          \* tile workers still proving (tile indices)
    tile_proofs,      \* aggregate_tile_proofs: the argument
    aggregated,       \* aggregation: the result, [ok, bytes]
    agg_pc,           \* aggregation: "run" | "call" | "done" | "idle"
    key_saver,        \* persistence: the proof system that saved, [k, shape]
    key_loader,       \* persistence: the proof system that loads, [k, shape]
    key_kind,         \* persistence: "pk" | "vk"
    store,            \* persistence: the file at path, [exists, bytes]
    loaded,           \* persistence: the result of load, [status, key]
    key_pc,           \* persistence: "save" | "saved" | "loaded" | "idle"
    util_image,       \* chunk_image / calculate_poseidon_image_hash: the image
    size_arg,         \* chunk_size or sample_size (usize)
    hash_input,       \* calculate_poseidon_image_hash: the bytes fed to the hash
    chunks,           \* chunk_image: the chunks returned
    util_status,      \* "Ok" | "Panic" | "none"
    util_pc,          \* "call" | "done" | "idle"
    pass,             \* fuse_operations: 1 on the given chain, 2 on the output of pass 1
    first_transformations, \* the chain given to pass 1
    first_fused,      \* the output of pass 1
    field_image,      \* decoders: the field matrix both decoders are given
    by_matrix,        \* decoders: result of field_matrix_to_image
    by_elements,      \* decoders: result of field_elements_to_image
    aggregated_proof, \* verify_aggregated: the proof it was last given
    agg_verified      \* verify_aggregated: "true" | "false" | "none"

fuseVars == <<transformations, fused, i, fuse_pc>>

tileVars == <<hd, width, height, tiles, x, y, tile_pc>>

codecVars == <<image, matrix, decoded, codec_pc>>

validateVars == <<max_size, validated, validate_pc>>

verifyVars == <<proof, public_inputs, verified, verify_pc>>

chainVars == <<chain, link, chain_result, chain_pc>>

circuitVars ==
    <<circuit, instance, input_digest, transformed_pixels, output_digest, satisfied,
      circuit_pc>>

setupVars == <<setup_pc, requested, returned, keygen_runs, circuit_cache>>

aggVars == <<proofs, workers, tile_proofs, aggregated, agg_pc>>

keyVars == <<key_saver, key_loader, key_kind, store, loaded, key_pc>>

utilVars == <<util_image, size_arg, hash_input, chunks, util_status, util_pc>>

againVars == <<pass, first_transformations, first_fused>>

decodersVars == <<field_image, by_matrix, by_elements>>

aggVerifyVars == <<aggregated_proof, agg_verified>>

vars ==
    <<prog, fuseVars, tileVars, codecVars, validateVars, verifyVars, chainVars,
      circuitVars, setupVars, aggVars, keyVars, utilVars, againVars,
      decodersVars,
      aggVerifyVars>>

\* What the actions of one operation leave alone.
exceptFuse ==
    <<tileVars, codecVars, validateVars, verifyVars, chainVars, circuitVars,
      setupVars, aggVars, keyVars, utilVars, againVars,
      decodersVars,
      aggVerifyVars>>

exceptTile ==
    <<fuseVars, codecVars, validateVars, verifyVars, chainVars, circuitVars,
      setupVars, aggVars, keyVars, utilVars, againVars,
      decodersVars,
      aggVerifyVars>>

exceptCodec ==
    <<fuseVars, tileVars, validateVars, verifyVars, chainVars, circuitVars,
      setupVars, aggVars, keyVars, utilVars, againVars,
      decodersVars,
      aggVerifyVars>>

exceptValidate ==
    <<fuseVars, codecVars, verifyVars, chainVars, circuitVars, setupVars, aggVars,
      keyVars, utilVars, againVars,
      decodersVars,
      aggVerifyVars>>

exceptVerify ==
    <<fuseVars, tileVars, codecVars, validateVars, chainVars, circuitVars,
      setupVars, aggVars, keyVars, utilVars, againVars,
      decodersVars,
      aggVerifyVars>>

exceptChain ==
    <<fuseVars, tileVars, codecVars, validateVars, verifyVars, circuitVars,
      setupVars, aggVars, keyVars, utilVars, againVars,
      decodersVars,
      aggVerifyVars>>

exceptCircuit ==
    <<fuseVars, tileVars, codecVars, validateVars, verifyVars, chainVars, setupVars,
      aggVars, keyVars, utilVars, againVars,
      decodersVars,
      aggVerifyVars>>

exceptSetup ==
    <<fuseVars, tileVars, codecVars, validateVars, verifyVars, chainVars,
      circuitVars, aggVars, keyVars, utilVars, againVars,
      decodersVars,
      aggVerifyVars>>

exceptAgg ==
    <<fuseVars, tileVars, codecVars, validateVars, verifyVars, chainVars,
      circuitVars, setupVars, keyVars, utilVars, againVars,
      decodersVars,
      aggVerifyVars>>

exceptKey ==
    <<fuseVars, tileVars, codecVars, validateVars, verifyVars, chainVars,
      circuitVars, setupVars, aggVars, utilVars, againVars,
      decodersVars,
      aggVerifyVars>>

exceptUtil ==
    <<fuseVars, tileVars, codecVars, validateVars, verifyVars, chainVars,
      circuitVars, setupVars, aggVars, keyVars, againVars,
      decodersVars,
      aggVerifyVars>>

\* What a second run of fuse_operations leaves alone.
exceptAgain ==
    <<tileVars, codecVars, validateVars, verifyVars, chainVars, circuitVars,
      setupVars, aggVars, keyVars, utilVars,
      decodersVars,
      aggVerifyVars>>

exceptDecoders ==
    <<fuseVars,
      tileVars,
      codecVars,
      validateVars,
      verifyVars,
      chainVars,
      circuitVars,
      setupVars,
      aggVars,
      keyVars,
      utilVars,
      againVars,
      aggVerifyVars>>

exceptAggVerify ==
    <<fuseVars,
      tileVars,
      codecVars,
      validateVars,
      verifyVars,
      chainVars,
      circuitVars,
      setupVars,
      aggVars,
      keyVars,
      utilVars,
      againVars,
      decodersVars>>

(***************************************************************************)
(* lib.rs: enum Transformation.  A value is a record tagged by "type".     *)
(* f32 parameters are carried as integers in tenths (Contrast(1.2) is 12): *)
(* the code only copies them.                                              *)
(***************************************************************************)
Crop(cx, cy, cw, ch) ==
    [type |-> "Crop", x |-> cx, y |-> cy, width |-> cw, height |-> ch]

Resize(rw, rh) == [type |-> "Resize", width |-> rw, height |-> rh]

Rotate(degrees) == [type |-> "Rotate", degrees |-> degrees]

FlipHorizontal == [type |-> "FlipHorizontal"]

FlipVertical == [type |-> "FlipVertical"]

Translate(dx, dy) == [type |-> "Translate", dx |-> dx, dy |-> dy]

ToYCbCr == [type |-> "ToYCbCr"]

ToRGB == [type |-> "ToRGB"]

Grayscale == [type |-> "Grayscale"]

Sharpen == [type |-> "Sharpen"]

Blur == [type |-> "Blur"]

Contrast(c) == [type |-> "Contrast", c |-> c]

Brightness(b) == [type |-> "Brightness", b |-> b]

WhiteBalance == [type |-> "WhiteBalance"]

CropResize(cx, cy, cw, ch, rw, rh) ==
    [type |-> "CropResize", crop_x |-> cx, crop_y |-> cy, crop_width |-> cw,
     crop_height |-> ch, resize_width |-> rw, resize_height |-> rh]

GrayscaleContrast(c) == [type |-> "GrayscaleContrast", contrast |-> c]

(***************************************************************************)
(* Input chains.  Long chains are drawn from the variants the fusion rule  *)
(* reads (plus one it ignores); short chains from all 16 variants with     *)
(* several parameter values, all six Crop/Resize parameters distinct.      *)
(***************************************************************************)
MaxChain == 5

MaxShortChain == 2

ScanVariants ==
    {Crop(0, 0, 100, 100), Resize(50, 50), Grayscale, Contrast(12), FlipHorizontal}

AllVariants ==
    ScanVariants \cup
    {Crop(1, 2, 3, 4), Resize(5, 6), Contrast(7), Rotate(90), FlipVertical,
     Translate(1, -1), ToYCbCr, ToRGB, Sharpen, Blur, Brightness(3), WhiteBalance,
     CropResize(0, 0, 100, 100, 50, 50), CropResize(1, 2, 3, 4, 5, 6),
     GrayscaleContrast(12), GrayscaleContrast(7)}

ChainsUpTo(S, n) == UNION {[1..k -> S] : k \in 0..n}

InputChains == ChainsUpTo(ScanVariants, MaxChain) \cup ChainsUpTo(AllVariants, MaxShortChain)

(***************************************************************************)
(* lib.rs ZKIMGSystem::fuse_operations, one action per loop iteration.     *)
(* transformations[i] of the code is transformations[i + 1] here.          *)
(***************************************************************************)
IsCropResizePair(a, b) == a.type = "Crop" /\ b.type = "Resize"

\* Variant of the second match arm that tests the first element for the
\* wrong variant.
IsGrayscaleContrastPair_wrongArm(a, b) == a.type = "Contrast" /\ b.type = "Contrast"

IsGrayscaleContrastPair(a, b) == a.type = "Grayscale" /\ b.type = "Contrast"

\* Variant of the first match arm with the resize fields crossed.
FuseCropResize_crossed(crop, resize) ==
    CropResize(crop.x, crop.y, crop.width, crop.height, resize.height, resize.width)

FuseCropResize(crop, resize) ==
    CropResize(crop.x, crop.y, crop.width, crop.height, resize.width, resize.height)

\* Variant of the second match arm that pushes the first element of the
\* pair instead of the fused variant.
FuseGrayscaleContrast_unfused(contrast) == Grayscale

FuseGrayscaleContrast(contrast) == GrayscaleContrast(contrast.c)

FuseStep ==
    /\ prog = "fuse"
    /\ fuse_pc = "loop"
    /\ i < Len(transformations)
    /\ \/ /\ i + 1 < Len(transformations)
          /\ IsCropResizePair(transformations[i + 1], transformations[i + 2])
          /\ fused' = Append(fused, FuseCropResize(transformations[i + 1],
                                                   transformations[i + 2]))
          /\ i' = i + 2
       \/ /\ i + 1 < Len(transformations)
          /\ IsGrayscaleContrastPair(transformations[i + 1], transformations[i + 2])
          /\ fused' = Append(fused, FuseGrayscaleContrast(transformations[i + 2]))
          /\ i' = i + 2
       \/ /\ ~(/\ i + 1 < Len(transformations)
               /\ \/ IsCropResizePair(transformations[i + 1], transformations[i + 2])
                  \/ IsGrayscaleContrastPair(transformations[i + 1],
                                             transformations[i + 2]))
          /\ fused' = Append(fused, transformations[i + 1])
          /\ i' = i + 1
    /\ UNCHANGED <<prog, transformations, fuse_pc, exceptFuse>>

FuseReturn ==
    /\ prog = "fuse"
    /\ fuse_pc = "loop"
    /\ ~(i < Len(transformations))
    /\ fuse_pc' = "done"
    /\ UNCHANGED <<prog, transformations, fused, i, exceptFuse>>

\* fuse_operations is called again, on the chain it returned.
FuseAgain ==
    /\ prog = "fuse"
    /\ fuse_pc = "done"
    /\ pass = 1
    /\ first_transformations' = transformations
    /\ first_fused' = fused
    /\ pass' = 2
    /\ transformations' = fused
    /\ fused' = << >>
    /\ i' = 0
    /\ fuse_pc' = "loop"
    /\ UNCHANGED <<prog, exceptAgain>>

AgainInit ==
    /\ pass = 1
    /\ first_transformations = << >>
    /\ first_fused = << >>

FuseInit ==
    /\ transformations \in InputChains
    /\ fused = << >>
    /\ i = 0
    /\ fuse_pc = "loop"

FuseIdle ==
    /\ transformations = << >>
    /\ fused = << >>
    /\ i = 0
    /\ fuse_pc = "idle"

(***************************************************************************)
(* Machine integers.  u32 is modelled with U32Bits bits instead of 32 (the *)
(* checker's integers are 32-bit themselves); usize is wider than u32, as  *)
(* on a 64-bit target, so a usize value may not fit a u32.                 *)
(***************************************************************************)
U32Bits == 14

U32 == 2 ^ U32Bits

\* `v as u32`: the low bits are kept.
AsU32(v) == v % U32

Min(a, b) == IF a <= b THEN a ELSE b

(***************************************************************************)
(* proof_system.rs HDProcessor::tile_hd_image.                             *)
(* (0..n).step_by(s) yields 0, s, 2s, ... below n and panics for s = 0.    *)
(***************************************************************************)
\* The operations that run tile_hd_image.
TilePrograms == {"tile", "validate_tile"}

MaxTileDim == 4

MaxTileSize == 3

MaxTilesCap == 3

HDProcessor_new == [tile_size |-> 256, max_tiles |-> 20]

TileInputs ==
    {<<w, h, p>> : w \in 0..MaxTileDim, h \in 0..MaxTileDim,
                   p \in [tile_size : (0..MaxTileSize) \cup {U32, U32 + 1},
                          max_tiles : (0..MaxTilesCap) \cup {20}]}
    \cup {<<640, 480, HDProcessor_new>>}

\* (x, y, tile_width, tile_height) of the tile whose corner is (tx, ty).
Tile(tx, ty) ==
    <<tx, ty, Min(AsU32(hd.tile_size), width - tx), Min(AsU32(hd.tile_size), height - ty)>>

\* tiles.len() >= self.max_tiles
CapReached(n) == n >= hd.max_tiles

\* step_by(0): "assertion failed: step != 0"
TilePanic ==
    /\ prog \in TilePrograms
    /\ tile_pc = "outer"
    /\ hd.tile_size = 0
    /\ tile_pc' = "panic"
    /\ UNCHANGED <<prog, hd, width, height, tiles, x, y, exceptTile>>

\* The outer iterator: the first row (y = 0), or the next one after a row
\* that ended below the cap.
TileOuterNext ==
    /\ prog \in TilePrograms
    /\ tile_pc = "outer"
    /\ hd.tile_size # 0
    /\ IF y < height
       THEN /\ tile_pc' = "inner"
            /\ x' = 0
            /\ UNCHANGED y
       ELSE /\ tile_pc' = "done"
            /\ UNCHANGED <<x, y>>
    /\ UNCHANGED <<prog, hd, width, height, tiles, exceptTile>>

\* One turn of the inner loop: push a tile and test the cap, or, with the
\* row exhausted, test the cap after the inner loop.
TileInnerNext ==
    /\ prog \in TilePrograms
    /\ tile_pc = "inner"
    /\ \/ /\ x < width
          /\ tiles' = Append(tiles, Tile(x, y))
          /\ x' = Min(x + hd.tile_size, width)
          /\ tile_pc' = IF CapReached(Len(tiles')) THEN "done" ELSE "inner"
          /\ UNCHANGED y
       \/ /\ ~(x < width)
          /\ IF CapReached(Len(tiles))
             THEN tile_pc' = "done" /\ UNCHANGED y
             ELSE tile_pc' = "outer" /\ y' = Min(y + hd.tile_size, height)
          /\ UNCHANGED <<tiles, x>>
    /\ UNCHANGED <<prog, hd, width, height, exceptTile>>

TileInit ==
    /\ \E inp \in TileInputs : width = inp[1] /\ height = inp[2] /\ hd = inp[3]
    /\ tiles = << >>
    /\ x = 0
    /\ y = 0
    /\ tile_pc = "outer"

TileIdle ==
    /\ hd = HDProcessor_new
    /\ width = 0
    /\ height = 0
    /\ tiles = << >>
    /\ x = 0
    /\ y = 0
    /\ tile_pc = "idle"

(***************************************************************************)
(* image_utils.rs: the pixel <-> field codec.                              *)
(* A field element is its canonical representative in 0..FieldModulus-1;   *)
(* the modulus is scaled with u32 and stays above 2^U32Bits, as the Pallas *)
(* modulus is above 2^32.  An image is [width, height, pixels], pixels a   *)
(* function of <<x, y>>; a matrix is a sequence of rows (y), each a        *)
(* sequence of [Fp; 3].                                                    *)
(***************************************************************************)
FieldModulus == 4 * U32 + 3

\* Fp::from(v as u64)
Fp_from(v) == v % FieldModulus

\* Fp::get_lower_32
get_lower_32(f) == f % U32

\* Variant of rgb_to_field with the green and blue channels crossed.
rgb_to_field_crossed(r, g, b) == <<Fp_from(r), Fp_from(b), Fp_from(g)>>

rgb_to_field(r, g, b) == <<Fp_from(r), Fp_from(g), Fp_from(b)>>

\* `& 0xFF` keeps the low 8 bits.
field_to_rgb(fields) ==
    <<get_lower_32(fields[1]) % 256, get_lower_32(fields[2]) % 256,
      get_lower_32(fields[3]) % 256>>

\* DynamicImage::new_rgb8(w, h): all channels 0.
new_rgb8(w, h) ==
    [width |-> w, height |-> h,
     pixels |-> [pt \in (0..(w - 1)) \X (0..(h - 1)) |-> <<0, 0, 0>>]]

image_to_field_matrix(img) ==
    [row \in 1..img.height |->
        [col \in 1..img.width |->
            LET rgb == img.pixels[<<col - 1, row - 1>>]
            IN  rgb_to_field(rgb[1], rgb[2], rgb[3])]]

\* put_pixel panics for a position outside the image: a row longer than
\* row 0 ends the call in a panic.
field_matrix_to_image_panics(m) ==
    /\ m # << >>
    /\ m[1] # << >>
    /\ \E row \in 1..Len(m) : Len(m[row]) > Len(m[1])

\* A row shorter than row 0 leaves the zeros of new_rgb8.
field_matrix_to_image(m) ==
    IF m = << >> \/ m[1] = << >>
    THEN new_rgb8(1, 1)
    ELSE LET h == Len(m)
             w == Len(m[1])
         IN  [width |-> w, height |-> h,
              pixels |-> [pt \in (0..(w - 1)) \X (0..(h - 1)) |->
                             IF pt[1] + 1 <= Len(m[pt[2] + 1])
                             THEN field_to_rgb(m[pt[2] + 1][pt[1] + 1])
                             ELSE <<0, 0, 0>>]]

MaxImageDim == 2

Palette == {<<0, 0, 0>>, <<255, 128, 1>>, <<17, 254, 200>>}

\* Every image up to MaxImageDim x MaxImageDim over the palette (empty
\* ones included), and 1x1 images running through every channel value.
CodecImages ==
    UNION {{[width |-> w, height |-> h, pixels |-> f] :
               f \in [(0..(w - 1)) \X (0..(h - 1)) -> Palette]} :
           w \in 0..MaxImageDim, h \in 0..MaxImageDim}
    \cup {[width |-> 1, height |-> 1,
           pixels |-> [pt \in {<<0, 0>>} |-> <<v, 255 - v, (v * 7) % 256>>]] :
          v \in 0..255}

CodecEncode ==
    /\ prog = "codec"
    /\ codec_pc = "encode"
    /\ matrix' = image_to_field_matrix(image)
    /\ codec_pc' = "decode"
    /\ UNCHANGED <<prog, image, decoded, exceptCodec>>

CodecDecode ==
    /\ prog = "codec"
    /\ codec_pc = "decode"
    /\ IF field_matrix_to_image_panics(matrix)
       THEN codec_pc' = "panic" /\ UNCHANGED decoded
       ELSE codec_pc' = "done" /\ decoded' = field_matrix_to_image(matrix)
    /\ UNCHANGED <<prog, image, matrix, exceptCodec>>

CodecInit ==
    /\ image \in CodecImages
    /\ matrix = << >>
    /\ decoded = new_rgb8(0, 0)
    /\ codec_pc = "encode"

CodecIdle ==
    /\ image = new_rgb8(0, 0)
    /\ matrix = << >>
    /\ decoded = new_rgb8(0, 0)
    /\ codec_pc = "idle"

(***************************************************************************)
(* image_utils.rs validate_image_for_zk.  width * height is a u32          *)
(* product: on overflow a build with overflow checks panics, a build       *)
(* without them keeps the low 32 bits.  The image is (width, height) of    *)
(* the tiling variables.                                                   *)
(***************************************************************************)
MaxValidateDim == 3

ValidateDims ==
    (0..MaxValidateDim) \cup {2 ^ (U32Bits \div 2), 2 ^ (U32Bits \div 2) + 1, U32 - 1}

ValidateMaxSizes == {0, 1, 6, U32 - 1, 2 * U32}

\* The outcomes of `(width * height) as usize`: a value, or a panic.
total_pixels(w, h) ==
    IF w * h < U32
    THEN {[panic |-> FALSE, value |-> w * h]}
    ELSE {[panic |-> FALSE, value |-> AsU32(w * h)], [panic |-> TRUE, value |-> 0]}

ValidateCall ==
    /\ prog \in {"validate", "validate_tile"}
    /\ validate_pc = "call"
    /\ \E total \in total_pixels(width, height) :
          validated' = IF total.panic THEN "Panic"
                       ELSE IF total.value > max_size THEN "Err"
                       ELSE IF total.value = 0 THEN "Err"
                       ELSE "Ok"
    /\ validate_pc' = "done"
    /\ UNCHANGED <<prog, max_size, tileVars, exceptValidate>>

ValidateInit ==
    /\ max_size \in ValidateMaxSizes
    /\ validated = "none"
    /\ validate_pc = "call"

ValidateIdle ==
    /\ max_size = 0
    /\ validated = "none"
    /\ validate_pc = "idle"

(***************************************************************************)
(* The default pipeline: an image is validated against                     *)
(* ZKIMGConfig::default().max_image_size and, once accepted, tiled by      *)
(* HDProcessor::new().  The images are those whose pixel count fits the    *)
(* modelled u32, so that the product never wraps here.                     *)
(***************************************************************************)
ZKIMGConfig_default == [max_image_size |-> 1280 * 720, k |-> 17]

DefaultDims == {0, 1, 3, 256, 257, 5120, 5121}

DefaultImages == {d \in DefaultDims \X DefaultDims : d[1] * d[2] < U32}

\* tile_hd_image(width, height) on the image validate_image_for_zk accepted.
TileAccepted ==
    /\ prog = "validate_tile"
    /\ validate_pc = "done"
    /\ validated = "Ok"
    /\ tile_pc = "idle"
    /\ tile_pc' = "outer"
    /\ UNCHANGED <<prog, hd, width, height, tiles, x, y, exceptTile>>

ValidateTileInit ==
    /\ \E d \in DefaultImages : width = d[1] /\ height = d[2]
    /\ hd = HDProcessor_new
    /\ tiles = << >>
    /\ x = 0
    /\ y = 0
    /\ tile_pc = "idle"
    /\ max_size = ZKIMGConfig_default.max_image_size
    /\ validated = "none"
    /\ validate_pc = "call"

(***************************************************************************)
(* proof_system.rs ZKIMGProofSystem::verify and lib.rs                     *)
(* ZKIMGSystem::verify_halo2_proof.  halo2's verify_proof is a library     *)
(* call: it reads the proof from the transcript and fails with an error    *)
(* either when the bytes cannot be read as a proof (too few bytes, a byte  *)
(* string that is no encoding of a point or scalar) or when the proof it   *)
(* read does not satisfy the constraint system.  A proof is ProofLen       *)
(* bytes; bytes run over 0..MaxByte and MaxByte encodes nothing.           *)
(***************************************************************************)
ProofLen == 2

MaxProofBytes == 3

MaxByte == 2

ProofStreams == UNION {[1..n -> 0..MaxByte] : n \in 0..MaxProofBytes}

PublicInputs == {<<0, 0>>, <<0, 1>>}

\* The proof an honest prover produces for the public inputs.
HonestProof(inputs) == [k \in 1..ProofLen |-> IF k = 1 THEN inputs[2] ELSE 1]

\* The transcript cannot be read as a proof.
IsMalformed(bytes) ==
    \/ Len(bytes) < ProofLen
    \/ \E k \in 1..ProofLen : bytes[k] = MaxByte

IsValidProof(bytes, inputs) ==
    /\ ~IsMalformed(bytes)
    /\ SubSeq(bytes, 1, ProofLen) = HonestProof(inputs)

\* halo2_proofs::plonk::verify_proof
halo2_verify_proof(bytes, inputs) ==
    IF IsMalformed(bytes) THEN "Err(Transcript)"
    ELSE IF IsValidProof(bytes, inputs) THEN "Ok"
    ELSE "Err(ConstraintSystemFailure)"

\* match result { Ok(_) => Ok(true), Err(_) => Ok(false) }
ZKIMGProofSystem_verify(bytes, inputs) ==
    IF halo2_verify_proof(bytes, inputs) = "Ok" THEN "Ok(true)" ELSE "Ok(false)"

\* Err(anyhow!("Halo2 verification in progress"))
verify_halo2_proof(bytes, inputs) == "Err"

VerifyCall ==
    /\ prog = "verify"
    /\ verify_pc = "call"
    /\ verified' = ZKIMGProofSystem_verify(proof, public_inputs)
    /\ verify_pc' = "done"
    /\ UNCHANGED <<prog, proof, public_inputs, exceptVerify>>

VerifyFacadeCall ==
    /\ prog = "verify_facade"
    /\ verify_pc = "call"
    /\ verified' = verify_halo2_proof(proof, public_inputs)
    /\ verify_pc' = "done"
    /\ UNCHANGED <<prog, proof, public_inputs, exceptVerify>>

VerifyInit ==
    /\ proof \in ProofStreams
    /\ public_inputs \in PublicInputs
    /\ verified = "none"
    /\ verify_pc = "call"

VerifyIdle ==
    /\ proof = << >>
    /\ public_inputs = <<0, 0>>
    /\ verified = "none"
    /\ verify_pc = "idle"

(***************************************************************************)
(* recursive_circuit.rs RecursiveZKIMGCircuit and proof_system.rs          *)
(* RecursiveProofSystem.  A chain is a sequence of links; a link is        *)
(* accepted when its synthesize returns Ok and every constraint it laid    *)
(* down holds.  Option<T> is [some, value].                                *)
(***************************************************************************)
MaxLinks == 2

MaxDepth == 2

max_chain_length == 100

Digests == {0, 1}

None == [some |-> FALSE, value |-> 0]

Some(v) == [some |-> TRUE, value |-> v]

\* RecursiveZKIMGCircuit::new stores its arguments as given.
Links ==
    [previous_proof : {None, Some(1)},
     previous_hash : {None} \cup {Some(d) : d \in Digests},
     image_data : {0},
     recursion_depth : (0..MaxDepth) \cup {max_chain_length + 1}]

Chains == UNION {[1..n -> Links] : n \in 1..MaxLinks}

\* "hash output" region: Ok([0u8; 32]), whatever the image data.
OutputHash(l) == 0

\* The equalities synthesize lays down between cells, as <<left, right>>
\* pairs: the "proof verification" region assigns one advice cell, the
\* "hash verification" region is empty, and nothing is constrained.
RecursiveConstraints(l) == {}

RecursiveSynthesize(l) ==
    [result |-> "Ok",
     satisfied |-> \A c \in RecursiveConstraints(l) : c[1] = c[2],
     output_hash |-> OutputHash(l),
     exposed_depth |-> l.recursion_depth]

ChainSynthesizeLink ==
    /\ prog = "chain"
    /\ chain_pc = "synthesize"
    /\ link < Len(chain)
    /\ LET r == RecursiveSynthesize(chain[link + 1])
       IN  IF r.result = "Ok" /\ r.satisfied
           THEN /\ link' = link + 1
                /\ UNCHANGED <<chain_result, chain_pc>>
           ELSE /\ chain_result' = "Err"
                /\ chain_pc' = "done"
                /\ UNCHANGED link
    /\ UNCHANGED <<prog, chain, exceptChain>>

ChainAccept ==
    /\ prog = "chain"
    /\ chain_pc = "synthesize"
    /\ link = Len(chain)
    /\ chain_result' = "Ok"
    /\ chain_pc' = "done"
    /\ UNCHANGED <<prog, chain, link, exceptChain>>

\* RecursiveProofSystem::prove_chain: Err for every chain.
ProveChain ==
    /\ prog = "prove_chain"
    /\ chain_pc = "synthesize"
    /\ chain_result' = "Err"
    /\ chain_pc' = "done"
    /\ UNCHANGED <<prog, chain, link, exceptChain>>

ChainInit ==
    /\ chain \in Chains
    /\ link = 0
    /\ chain_result = "none"
    /\ chain_pc = "synthesize"

ChainIdle ==
    /\ chain = << >>
    /\ link = 0
    /\ chain_result = "none"
    /\ chain_pc = "idle"

(***************************************************************************)
(* circuits.rs ZKIMGCircuit.  The Poseidon sponge is modelled by the       *)
(* sequence it absorbed (a collision-free digest); a pixel matrix is a     *)
(* sequence of rows of <<r, g, b>>.                                        *)
(***************************************************************************)
Window == 32

MaxSeed == 1

\* <<height, width>> of the witness matrices: empty, inside the window,
\* and beyond it in either and in both directions.
CircuitShapes == {<<0, 0>>, <<1, 1>>, <<2, 3>>, <<33, 2>>, <<2, 33>>, <<34, 33>>}

PixelMatrix(h, w, seed) ==
    [r \in 1..h |->
        [c \in 1..w |-> <<(7 * r + 3 * c + seed) % 256, (r + seed) % 256, c % 256>>]]

CircuitImages ==
    {PixelMatrix(sh[1], sh[2], seed) : sh \in CircuitShapes, seed \in 0..MaxSeed}

Poseidon(absorbed) == [poseidon |-> absorbed]

\* The inner loop of hash_image, from column col (0-based) on.
RECURSIVE AbsorbRow(_, _)
AbsorbRow(row, col) ==
    IF col < Min(Window, Len(row))
    THEN <<row[col + 1][1], row[col + 1][2], row[col + 1][3]>> \o AbsorbRow(row, col + 1)
    ELSE << >>

\* The outer loop of hash_image, from row `row` (0-based) on.
RECURSIVE AbsorbRows(_, _)
AbsorbRows(pixels, row) ==
    IF row < Min(Window, Len(pixels))
    THEN AbsorbRow(pixels[row + 1], 0) \o AbsorbRows(pixels, row + 1)
    ELSE << >>

\* Variant of hash_image that also absorbs the first row below the window.
hash_image_extra_row(c) ==
    Poseidon(AbsorbRows(c.image_pixels, 0)
             \o (IF Len(c.image_pixels) > Window
                 THEN AbsorbRow(c.image_pixels[Window + 1], 0)
                 ELSE << >>))

hash_image(c) == Poseidon(AbsorbRows(c.image_pixels, 0))

hash_image_output(c, pixels) == Poseidon(AbsorbRows(pixels, 0))

\* Variant of apply_transformations that inverts every channel when there
\* are transformation parameters.
apply_transformations_inverting(c) ==
    IF c.transformation_params = << >>
    THEN c.image_pixels
    ELSE [r \in 1..Len(c.image_pixels) |->
             [col \in 1..Len(c.image_pixels[r]) |->
                 <<255 - c.image_pixels[r][col][1], 255 - c.image_pixels[r][col][2],
                   255 - c.image_pixels[r][col][3]>>]]

\* Ok(self.image_pixels.clone())
apply_transformations(c) == c.image_pixels

\* Transformation parameter lists a circuit may be built with.
TransformationParams == {<< >>, <<1>>, <<2, 0>>}

\* The circuit given to key generation: no pixels, no parameters.
without_witnesses(c) == [image_pixels |-> << >>, transformation_params |-> << >>]

\* The hasher.update calls laid out by hash_image and hash_image_output.
AbsorptionSteps(c) ==
    Len(hash_image(c).poseidon)
    + Len(hash_image_output(c, apply_transformations(c)).poseidon)

\* Variant of constrain_instance that binds instance row 0 only.
constrain_instance_row0_only(in_hash, out_hash, inst) == in_hash = inst[1]

\* constrain_instance(input_hash, instance, 0) and (output_hash, instance, 1)
constrain_instance(in_hash, out_hash, inst) ==
    /\ in_hash = inst[1]
    /\ out_hash = inst[2]

OtherDigest == Poseidon(<<255>>)

SynthesizeHashInput ==
    /\ prog = "circuit"
    /\ circuit_pc = "hash_input"
    /\ input_digest' = hash_image(circuit)
    /\ circuit_pc' = "apply"
    /\ UNCHANGED <<prog, circuit, instance, transformed_pixels, output_digest, satisfied,
                   exceptCircuit>>

SynthesizeApply ==
    /\ prog = "circuit"
    /\ circuit_pc = "apply"
    /\ transformed_pixels' = apply_transformations(circuit)
    /\ circuit_pc' = "hash_output"
    /\ UNCHANGED <<prog, circuit, instance, input_digest, output_digest, satisfied,
                   exceptCircuit>>

SynthesizeHashOutput ==
    /\ prog = "circuit"
    /\ circuit_pc = "hash_output"
    /\ output_digest' = hash_image_output(circuit, transformed_pixels)
    /\ circuit_pc' = "constrain"
    /\ UNCHANGED <<prog, circuit, instance, input_digest, transformed_pixels, satisfied,
                   exceptCircuit>>

SynthesizeConstrain ==
    /\ prog = "circuit"
    /\ circuit_pc = "constrain"
    /\ satisfied' = constrain_instance(input_digest, output_digest, instance)
    /\ circuit_pc' = "done"
    /\ UNCHANGED <<prog, circuit, instance, input_digest, transformed_pixels,
                   output_digest, exceptCircuit>>

\* The public instance rows are the digest of the witness, the digest of
\* some other matrix, or a digest of no matrix at all.
CircuitInit ==
    /\ \E m \in CircuitImages, params \in {<< >>, <<1>>} :
          /\ circuit = [image_pixels |-> m, transformation_params |-> params]
          /\ \E other \in CircuitImages :
                instance \in [1..2 -> {Poseidon(AbsorbRows(m, 0)),
                                       Poseidon(AbsorbRows(other, 0)), OtherDigest}]
    /\ input_digest = Poseidon(<< >>)
    /\ transformed_pixels = << >>
    /\ output_digest = Poseidon(<< >>)
    /\ satisfied = FALSE
    /\ circuit_pc = "hash_input"

CircuitIdle ==
    /\ circuit = [image_pixels |-> << >>, transformation_params |-> << >>]
    /\ instance = <<Poseidon(<< >>), Poseidon(<< >>)>>
    /\ input_digest = Poseidon(<< >>)
    /\ transformed_pixels = << >>
    /\ output_digest = Poseidon(<< >>)
    /\ satisfied = FALSE
    /\ circuit_pc = "idle"

(***************************************************************************)
(* proof_system.rs ZKIMGProofSystem::setup, called NumSetupCalls times on  *)
(* one proof system (it takes &self, so the calls may interleave), and     *)
(* lib.rs ZKIMGSystem.circuit_cache.  Key generation is deterministic in   *)
(* (params, circuit shape).                                                *)
(***************************************************************************)
NumSetupCalls == 3

SetupCalls == 1..NumSetupCalls

proof_system_k == 17

CircuitShapeKeys == {"Crop", "Grayscale"}

keygen_vk(k, shape) == [vk |-> <<k, shape>>]

keygen_pk(k, vk, shape) == [pk |-> <<k, shape>>, vk |-> vk]

NoKeys == [pk |-> keygen_pk(0, keygen_vk(0, "none"), "none"), vk |-> keygen_vk(0, "none")]

\* let vk = keygen_vk(&self.params, circuit)?
SetupKeygenVk(t) ==
    /\ prog = "setup"
    /\ setup_pc[t] = "call"
    /\ keygen_runs' = [keygen_runs EXCEPT ![requested[t]] = @ + 1]
    /\ returned' = [returned EXCEPT ![t].vk = keygen_vk(proof_system_k, requested[t])]
    /\ setup_pc' = [setup_pc EXCEPT ![t] = "vk"]
    /\ UNCHANGED <<prog, requested, circuit_cache, exceptSetup>>

\* let pk = keygen_pk(&self.params, vk.clone(), circuit)?; Ok((pk, vk))
SetupKeygenPk(t) ==
    /\ prog = "setup"
    /\ setup_pc[t] = "vk"
    /\ returned' = [returned EXCEPT
                       ![t].pk = keygen_pk(proof_system_k, returned[t].vk, requested[t])]
    /\ setup_pc' = [setup_pc EXCEPT ![t] = "done"]
    /\ UNCHANGED <<prog, requested, keygen_runs, circuit_cache, exceptSetup>>

\* ZKIMGSystem::new: circuit_cache: HashMap::new(); nothing inserts into it.
SetupInit ==
    /\ requested \in [SetupCalls -> CircuitShapeKeys]
    /\ setup_pc = [t \in SetupCalls |-> "call"]
    /\ returned = [t \in SetupCalls |-> NoKeys]
    /\ keygen_runs = [sh \in CircuitShapeKeys |-> 0]
    /\ circuit_cache = {}

SetupIdle ==
    /\ requested = [t \in SetupCalls |-> "Crop"]
    /\ setup_pc = [t \in SetupCalls |-> "idle"]
    /\ returned = [t \in SetupCalls |-> NoKeys]
    /\ keygen_runs = [sh \in CircuitShapeKeys |-> 0]
    /\ circuit_cache = {}

(***************************************************************************)
(* recursive_circuit.rs ProofAggregator and proof_system.rs                *)
(* HDProcessor::aggregate_tile_proofs.  A proof is a byte sequence; a      *)
(* result is [status, bytes].  Tile workers are the indices of the tiles   *)
(* in the order of tile_hd_image; a worker that finishes hands its proof   *)
(* to add_proof.                                                           *)
(***************************************************************************)
MaxWorkers == 3

MaxTileProofs == 3

MaxTileProofLen == 2

mock_proof_len == 192

NoResult == [status |-> "none", bytes |-> << >>]

OkBytes(b) == [status |-> "Ok", bytes |-> b]

ErrResult == [status |-> "Err", bytes |-> << >>]

\* The proof of tile t.
TileProof(t) == <<t>>

TileProofBytes == UNION {[1..n -> 0..1] : n \in 0..MaxTileProofLen}

TileProofLists == UNION {[1..n -> TileProofBytes] : n \in 0..MaxTileProofs}

\* for proof in tile_proofs { aggregated.extend_from_slice(&proof) }
RECURSIVE Concatenate(_)
Concatenate(list) ==
    IF list = << >> THEN << >> ELSE Head(list) \o Concatenate(Tail(list))

aggregate_tile_proofs(list) ==
    IF list = << >> THEN ErrResult
    ELSE IF Len(list) = 1 THEN OkBytes(list[1])
    ELSE OkBytes(Concatenate(list))

\* Ok(vec![0u8; 192]), whatever self.proofs holds.
ProofAggregator_aggregate(ps) == OkBytes([k \in 1..mock_proof_len |-> 0])

\* A worker finishes and calls add_proof: self.proofs.push(proof).
AddProof(t) ==
    /\ prog = "aggregator"
    /\ t \in workers
    /\ proofs' = Append(proofs, TileProof(t))
    /\ workers' = workers \ {t}
    /\ UNCHANGED <<prog, tile_proofs, aggregated, agg_pc, exceptAgg>>

Aggregate ==
    /\ prog = "aggregator"
    /\ agg_pc = "run"
    /\ aggregated' = ProofAggregator_aggregate(proofs)
    /\ UNCHANGED <<prog, proofs, workers, tile_proofs, agg_pc, exceptAgg>>

AggregateTileProofs ==
    /\ prog = "aggregate_tiles"
    /\ agg_pc = "call"
    /\ aggregated' = aggregate_tile_proofs(tile_proofs)
    /\ agg_pc' = "done"
    /\ UNCHANGED <<prog, proofs, workers, tile_proofs, exceptAgg>>

\* Ok(true), whatever the arguments and self.proofs are.
ProofAggregator_verify_aggregated(ps, p, inputs) == TRUE

\* The proofs handed to verify_aggregated: the artifact of aggregate and
\* two other byte strings.
AggregatedProofs == {[k \in 1..mock_proof_len |-> 0], << >>, <<1>>}

AggregatedInputs == {<< >>, <<1>>}

VerifyAggregated ==
    /\ prog = "aggregator"
    /\ \E p \in AggregatedProofs, inputs \in AggregatedInputs :
          /\ aggregated_proof' = p
          /\ agg_verified' = IF ProofAggregator_verify_aggregated(proofs, p, inputs)
                             THEN "true" ELSE "false"
    /\ UNCHANGED <<prog, aggVars, exceptAggVerify>>

AggVerifyInit ==
    /\ aggregated_proof = << >>
    /\ agg_verified = "none"

\* ProofAggregator::new: proofs: vec![]
AggregatorInit ==
    /\ proofs = << >>
    /\ workers \in {1..n : n \in 0..MaxWorkers}
    /\ tile_proofs = << >>
    /\ aggregated = NoResult
    /\ agg_pc = "run"

AggregateTilesInit ==
    /\ proofs = << >>
    /\ workers = {}
    /\ tile_proofs \in TileProofLists
    /\ aggregated = NoResult
    /\ agg_pc = "call"

AggIdle ==
    /\ proofs = << >>
    /\ workers = {}
    /\ tile_proofs = << >>
    /\ aggregated = NoResult
    /\ agg_pc = "idle"

(***************************************************************************)
(* proof_system.rs save_proving_key / load_proving_key /                   *)
(* save_verifying_key / load_verifying_key.  serde_json::to_vec writes the *)
(* key as an opening mark, its fields and a closing mark; from_slice       *)
(* fails on bytes that are not of that form and otherwise returns the key  *)
(* the fields spell.  fs::read fails when the file does not exist.         *)
(***************************************************************************)
ProofSystems == [k : {proof_system_k, proof_system_k + 1}, shape : CircuitShapeKeys]

\* The key of the given kind that setup generates in system sys.
KeyOf(kind, sys) ==
    IF kind = "vk"
    THEN keygen_vk(sys.k, sys.shape)
    ELSE keygen_pk(sys.k, keygen_vk(sys.k, sys.shape), sys.shape)

NoFile == [exists |-> FALSE, bytes |-> << >>]

NoKey == [status |-> "none", key |-> keygen_vk(0, "none")]

serde_json_to_vec(kind, sys) == <<"{", kind, sys.k, sys.shape, "}">>

Parses(bytes) ==
    /\ Len(bytes) = 5
    /\ bytes[1] = "{"
    /\ bytes[5] = "}"

serde_json_from_slice(kind, bytes) ==
    IF Parses(bytes) /\ bytes[2] = kind
    THEN [status |-> "Ok", key |-> KeyOf(kind, [k |-> bytes[3], shape |-> bytes[4]])]
    ELSE [status |-> "Err", key |-> keygen_vk(0, "none")]

\* What a damaged file may hold: a truncated blob, a blob with a damaged
\* mark, a blob with a damaged field.
Corruptions(bytes) ==
    {SubSeq(bytes, 1, 4), [bytes EXCEPT ![1] = "#"]}
    \cup {[bytes EXCEPT ![4] = sh] : sh \in CircuitShapeKeys \ {bytes[4]}}

SaveKey ==
    /\ prog = "persist"
    /\ key_pc = "save"
    /\ store' = [exists |-> TRUE, bytes |-> serde_json_to_vec(key_kind, key_saver)]
    /\ key_pc' = "saved"
    /\ UNCHANGED <<prog, key_saver, key_loader, key_kind, loaded, exceptKey>>

\* The file is damaged between save and load.
CorruptFile ==
    /\ prog = "persist"
    /\ key_pc = "saved"
    /\ store.bytes = serde_json_to_vec(key_kind, key_saver)
    /\ \E damaged \in Corruptions(store.bytes) :
          store' = [exists |-> TRUE, bytes |-> damaged]
    /\ UNCHANGED <<prog, key_saver, key_loader, key_kind, loaded, key_pc, exceptKey>>

\* load_*_key; it may also run with nothing saved.
LoadKey ==
    /\ prog = "persist"
    /\ key_pc \in {"save", "saved"}
    /\ loaded' = IF store.exists
                 THEN serde_json_from_slice(key_kind, store.bytes)
                 ELSE [status |-> "Err", key |-> keygen_vk(0, "none")]
    /\ key_pc' = "loaded"
    /\ UNCHANGED <<prog, key_saver, key_loader, key_kind, store, exceptKey>>

KeyInit ==
    /\ key_saver \in ProofSystems
    /\ key_loader \in ProofSystems
    /\ key_kind \in {"pk", "vk"}
    /\ store = NoFile
    /\ loaded = NoKey
    /\ key_pc = "save"

KeyIdle ==
    /\ key_saver = [k |-> proof_system_k, shape |-> "Crop"]
    /\ key_loader = [k |-> proof_system_k, shape |-> "Crop"]
    /\ key_kind = "pk"
    /\ store = NoFile
    /\ loaded = NoKey
    /\ key_pc = "idle"

(***************************************************************************)
(* image_utils.rs chunk_image and calculate_poseidon_image_hash.  Both     *)
(* return a plain Vec; indexing an empty Vec, dividing by zero and         *)
(* step_by(0) panic.  Fp::to_bytes is the little-endian encoding, FpBytes  *)
(* bytes long.                                                             *)
(***************************************************************************)
MaxUtilDim == 5

MaxSizeArg == 3

FpBytes == 2

Max(a, b) == IF a >= b THEN a ELSE b

to_bytes(f) == [k \in 1..FpBytes |-> (f \div (256 ^ (k - 1))) % 256]

\* The values of (0..n).step_by(s), s >= 1.
StepBy(n, s) == [k \in 1..((n + s - 1) \div s) |-> (k - 1) * s]

\* The image of the given size whose pixel values tell the positions apart.
UtilImage(w, h) ==
    [width |-> w, height |-> h,
     pixels |-> [pt \in (0..(w - 1)) \X (0..(h - 1)) |->
                    <<16 * pt[2] + pt[1], 255 - pt[1], 200 + pt[2]>>]]

UtilImages == {UtilImage(w, h) : w \in 0..MaxUtilDim, h \in 0..MaxUtilDim}

\* Variant of sample_step that rounds the quotient up.
sample_step_roundup(len, n) == Max(1, (len + n - 1) \div n)

\* std::cmp::max(1, len / sample_size)
sample_step(len, n) == Max(1, len \div n)

\* The inner loop of calculate_poseidon_image_hash over the columns xs.
RECURSIVE SampleRow(_, _)
SampleRow(row, xs) ==
    IF xs = << >> THEN << >>
    ELSE LET pixel == row[Head(xs) + 1]
         IN  to_bytes(pixel[1]) \o to_bytes(pixel[2]) \o to_bytes(pixel[3])
             \o SampleRow(row, Tail(xs))

\* The outer loop over the rows ys.
RECURSIVE SampleRows(_, _, _)
SampleRows(m, ys, step_x) ==
    IF ys = << >> THEN << >>
    ELSE SampleRow(m[Head(ys) + 1], StepBy(Len(m[Head(ys) + 1]), step_x))
         \o SampleRows(m, Tail(ys), step_x)

\* matrix.len() / sample_size with sample_size 0, and matrix[0] of an
\* empty matrix.
calculate_poseidon_image_hash_panics(m, sample_size) ==
    sample_size = 0 \/ m = << >>

sampled_hash_input(m, sample_size) ==
    SampleRows(m, StepBy(Len(m), sample_step(Len(m), sample_size)),
               sample_step(Len(m[1]), sample_size))

\* (0..n).step_by(0) panics, whatever n.
chunk_image_panics(m, chunk_size) == chunk_size = 0

\* matrix[chunk_y..end_y] with each row cut to [chunk_x..end_x].
Chunk(m, chunk_y, chunk_x, chunk_size) ==
    LET end_y == Min(chunk_y + chunk_size, Len(m))
        end_x == Min(chunk_x + chunk_size, Len(m[1]))
    IN  [r \in 1..(end_y - chunk_y) |-> SubSeq(m[chunk_y + r], chunk_x + 1, end_x)]

RECURSIVE ChunkRow(_, _, _, _)
ChunkRow(m, chunk_y, xs, chunk_size) ==
    IF xs = << >> THEN << >>
    ELSE <<Chunk(m, chunk_y, Head(xs), chunk_size)>>
         \o ChunkRow(m, chunk_y, Tail(xs), chunk_size)

RECURSIVE ChunkRows(_, _, _)
ChunkRows(m, ys, chunk_size) ==
    IF ys = << >> THEN << >>
    ELSE ChunkRow(m, Head(ys), StepBy(Len(m[1]), chunk_size), chunk_size)
         \o ChunkRows(m, Tail(ys), chunk_size)

chunk_image_chunks(m, chunk_size) == ChunkRows(m, StepBy(Len(m), chunk_size), chunk_size)

SampleHashCall ==
    /\ prog = "sample_hash"
    /\ util_pc = "call"
    /\ LET m == image_to_field_matrix(util_image)
       IN  IF calculate_poseidon_image_hash_panics(m, size_arg)
           THEN util_status' = "Panic" /\ UNCHANGED hash_input
           ELSE util_status' = "Ok" /\ hash_input' = sampled_hash_input(m, size_arg)
    /\ util_pc' = "done"
    /\ UNCHANGED <<prog, util_image, size_arg, chunks, exceptUtil>>

ChunkImageCall ==
    /\ prog = "chunk"
    /\ util_pc = "call"
    /\ LET m == image_to_field_matrix(util_image)
       IN  IF chunk_image_panics(m, size_arg)
           THEN util_status' = "Panic" /\ UNCHANGED chunks
           ELSE util_status' = "Ok" /\ chunks' = chunk_image_chunks(m, size_arg)
    /\ util_pc' = "done"
    /\ UNCHANGED <<prog, util_image, size_arg, hash_input, exceptUtil>>

UtilInit ==
    /\ util_image \in UtilImages
    /\ size_arg \in 0..MaxSizeArg
    /\ hash_input = << >>
    /\ chunks = << >>
    /\ util_status = "none"
    /\ util_pc = "call"

UtilIdle ==
    /\ util_image = new_rgb8(0, 0)
    /\ size_arg = 0
    /\ hash_input = << >>
    /\ chunks = << >>
    /\ util_status = "none"
    /\ util_pc = "idle"
(***************************************************************************)
(* The two field-to-image decoders: image_utils.rs field_matrix_to_image   *)
(* and transforms.rs field_elements_to_image, both applied to one field    *)
(* matrix.  A pixel is three field elements in both (a [Fp; 3] there, a    *)
(* Vec<Fp> of length 3 here).  A result is [status, image].                *)
(***************************************************************************)
\* `v as u8`: the low 8 bits are kept.
as_u8(v) == v % 256

\* field_elements_to_image panics in put_pixel for a row longer than
\* row 0 (longer than 0 for an empty row 0).
field_elements_to_image_panics(fi) ==
    LET w == IF fi = << >> THEN 0 ELSE Len(fi[1])
    IN  \E row \in 1..Len(fi) : Len(fi[row]) > w

\* A row shorter than row 0 leaves the zeros of new_rgb8.
field_elements_to_image(fi) ==
    LET h == Len(fi)
        w == IF fi = << >> THEN 0 ELSE Len(fi[1])
    IN  [width |-> w, height |-> h,
         pixels |-> [pt \in (0..(w - 1)) \X (0..(h - 1)) |->
                        IF pt[1] + 1 <= Len(fi[pt[2] + 1])
                        THEN LET pixel == fi[pt[2] + 1][pt[1] + 1]
                             IN  <<as_u8(get_lower_32(pixel[1])),
                                   as_u8(get_lower_32(pixel[2])),
                                   as_u8(get_lower_32(pixel[3]))>>
                        ELSE <<0, 0, 0>>]]

\* Field pixels: 8-bit values, values of 256 and more, values of 2^32 and
\* more.
FieldPixels ==
    {<<0, 0, 0>>, <<255, 256, 257>>, <<U32 + 5, FieldModulus - 1, 511>>}

FieldRows == UNION {[1..n -> FieldPixels] : n \in 0..MaxImageDim}

\* Every matrix of up to MaxImageDim rows of up to MaxImageDim pixels: the
\* empty matrix, empty rows and ragged rows included.
FieldMatrices == UNION {[1..n -> FieldRows] : n \in 0..MaxImageDim}

NoImage == [status |-> "none", image |-> new_rgb8(0, 0)]

DecodeByMatrix ==
    /\ prog = "decoders"
    /\ by_matrix.status = "none"
    /\ by_matrix' = IF field_matrix_to_image_panics(field_image)
                    THEN [status |-> "Panic", image |-> new_rgb8(0, 0)]
                    ELSE [status |-> "Ok", image |-> field_matrix_to_image(field_image)]
    /\ UNCHANGED <<prog, field_image, by_elements, exceptDecoders>>

DecodeByElements ==
    /\ prog = "decoders"
    /\ by_elements.status = "none"
    /\ by_elements' = IF field_elements_to_image_panics(field_image)
                      THEN [status |-> "Panic", image |-> new_rgb8(0, 0)]
                      ELSE [status |-> "Ok", image |-> field_elements_to_image(field_image)]
    /\ UNCHANGED <<prog, field_image, by_matrix, exceptDecoders>>

DecodersInit ==
    /\ field_image \in FieldMatrices
    /\ by_matrix = NoImage
    /\ by_elements = NoImage

DecodersIdle ==
    /\ field_image = << >>
    /\ by_matrix = NoImage
    /\ by_elements = NoImage


Programs ==
    {"fuse", "tile", "codec", "validate", "verify", "verify_facade", "chain",
     "prove_chain", "circuit", "setup", "aggregator", "aggregate_tiles",
     "persist", "sample_hash", "chunk", "validate_tile",
     "decoders"}

InitPrograms ==
    /\ IF prog = "fuse" THEN FuseInit ELSE FuseIdle
    /\ AgainInit
    /\ IF prog = "tile" THEN TileInit
       ELSE IF prog = "validate_tile" THEN ValidateTileInit
       ELSE IF prog = "validate"
       THEN /\ width \in ValidateDims
            /\ height \in ValidateDims
            /\ hd = HDProcessor_new /\ tiles = << >> /\ x = 0 /\ y = 0
            /\ tile_pc = "idle"
       ELSE TileIdle
    /\ IF prog = "codec" THEN CodecInit ELSE CodecIdle
    /\ IF prog = "validate" THEN ValidateInit
       ELSE IF prog = "validate_tile" THEN TRUE
       ELSE ValidateIdle
    /\ IF prog \in {"verify", "verify_facade"} THEN VerifyInit ELSE VerifyIdle
    /\ IF prog \in {"chain", "prove_chain"} THEN ChainInit ELSE ChainIdle
    /\ IF prog = "circuit" THEN CircuitInit ELSE CircuitIdle
    /\ IF prog = "setup" THEN SetupInit ELSE SetupIdle
    /\ IF prog = "aggregator" THEN AggregatorInit
       ELSE IF prog = "aggregate_tiles" THEN AggregateTilesInit
       ELSE AggIdle
    /\ AggVerifyInit
    /\ IF prog = "persist" THEN KeyInit ELSE KeyIdle
    /\ IF prog \in {"sample_hash", "chunk"} THEN UtilInit ELSE UtilIdle
    /\ IF prog = "decoders" THEN DecodersInit ELSE DecodersIdle

Init == prog \in Programs /\ InitPrograms

NextFuse == FuseStep \/ FuseReturn \/ FuseAgain

NextTile == TilePanic \/ TileOuterNext \/ TileInnerNext

\* The default tile_size is not 0: step_by never panics here.
NextValidateTile == ValidateCall \/ TileAccepted \/ TileOuterNext \/ TileInnerNext

NextCodec == CodecEncode \/ CodecDecode

NextVerify == VerifyCall \/ VerifyFacadeCall

NextChain == ChainSynthesizeLink \/ ChainAccept \/ ProveChain

NextCircuit ==
    SynthesizeHashInput \/ SynthesizeApply \/ SynthesizeHashOutput \/ SynthesizeConstrain

NextSetup == \E t \in SetupCalls : SetupKeygenVk(t) \/ SetupKeygenPk(t)

NextAgg ==
    \/ \E t \in 1..MaxWorkers : AddProof(t)
    \/ Aggregate
    \/ VerifyAggregated
    \/ AggregateTileProofs

NextKey == SaveKey \/ CorruptFile \/ LoadKey

NextUtil == SampleHashCall \/ ChunkImageCall

NextDecoders == DecodeByMatrix \/ DecodeByElements

Next ==
    \/ NextFuse
    \/ NextTile
    \/ NextCodec
    \/ ValidateCall
    \/ TileAccepted
    \/ NextVerify
    \/ NextChain
    \/ NextCircuit
    \/ NextSetup
    \/ NextAgg
    \/ NextKey
    \/ NextUtil
    \/ NextDecoders

Spec == Init /\ [][Next]_vars

\* One specification per operation: the same actions, started in that
\* operation only.
InitFuse == prog = "fuse" /\ InitPrograms

SpecFuse == InitFuse /\ [][NextFuse]_vars

InitTile == prog = "tile" /\ InitPrograms

SpecTile == InitTile /\ [][NextTile]_vars

InitCodec == prog = "codec" /\ InitPrograms

SpecCodec == InitCodec /\ [][NextCodec]_vars

InitValidate == prog = "validate" /\ InitPrograms

SpecValidate == InitValidate /\ [][ValidateCall]_vars

InitValidateTile == prog = "validate_tile" /\ InitPrograms

SpecValidateTile == InitValidateTile /\ [][NextValidateTile]_vars

InitDecoders == prog = "decoders" /\ InitPrograms

SpecDecoders == InitDecoders /\ [][NextDecoders]_vars

InitVerify == prog \in {"verify", "verify_facade"} /\ InitPrograms

SpecVerify == InitVerify /\ [][NextVerify]_vars

InitChain == prog \in {"chain", "prove_chain"} /\ InitPrograms

SpecChain == InitChain /\ [][NextChain]_vars

InitCircuit == prog = "circuit" /\ InitPrograms

SpecCircuit == InitCircuit /\ [][NextCircuit]_vars

InitSetup == prog = "setup" /\ InitPrograms

SpecSetup == InitSetup /\ [][NextSetup]_vars

InitAgg == prog \in {"aggregator", "aggregate_tiles"} /\ InitPrograms

SpecAgg == InitAgg /\ [][NextAgg]_vars

InitKey == prog = "persist" /\ InitPrograms

SpecKey == InitKey /\ [][NextKey]_vars

InitUtil == prog \in {"sample_hash", "chunk"} /\ InitPrograms

SpecUtil == InitUtil /\ [][NextUtil]_vars

(***************************************************************************)
(* Properties of fuse_operations.                                          *)
(***************************************************************************)
FuseDone == prog = "fuse" /\ fuse_pc = "done"

IsUnfused(ts) ==
    \A k \in 1..Len(ts) : ts[k].type \notin {"CropResize", "GrayscaleContrast"}

\* A fused variant written back as the pair it stands for.
Unfuse(t) ==
    IF t.type = "CropResize"
    THEN <<[type |-> "Crop", x |-> t.crop_x, y |-> t.crop_y,
            width |-> t.crop_width, height |-> t.crop_height],
           [type |-> "Resize", width |-> t.resize_width, height |-> t.resize_height]>>
    ELSE IF t.type = "GrayscaleContrast"
    THEN <<[type |-> "Grayscale"], [type |-> "Contrast", c |-> t.contrast]>>
    ELSE <<t>>

RECURSIVE UnfuseChain(_)
UnfuseChain(ts) ==
    IF ts = << >> THEN << >> ELSE Unfuse(Head(ts)) \o UnfuseChain(Tail(ts))

NumFused(ts) ==
    Cardinality({k \in 1..Len(ts) :
                    ts[k].type \in {"CropResize", "GrayscaleContrast"}})

HasFusablePair(ts) ==
    \E k \in 1..(Len(ts) - 1) :
        \/ ts[k].type = "Crop" /\ ts[k + 1].type = "Resize"
        \/ ts[k].type = "Grayscale" /\ ts[k + 1].type = "Contrast"

ScenarioB_In == <<Crop(0, 0, 100, 100), Resize(50, 50), Grayscale, Contrast(12)>>

ScenarioB_Out ==
    <<[type |-> "CropResize", crop_x |-> 0, crop_y |-> 0, crop_width |-> 100,
       crop_height |-> 100, resize_width |-> 50, resize_height |-> 50],
      [type |-> "GrayscaleContrast", contrast |-> 12]>>

\* C1: a two-element chain [Crop, Resize] fuses to exactly one CropResize
\* carrying the six parameters unchanged, [Grayscale, Contrast(c)] to one
\* GrayscaleContrast{c}; every other two-element chain is returned as it is.
C1_FuseTwoElementChain ==
    (FuseDone /\ Len(transformations) = 2) =>
        LET a == transformations[1]
            b == transformations[2]
        IN  IF a.type = "Crop" /\ b.type = "Resize"
            THEN fused = <<[type |-> "CropResize", crop_x |-> a.x, crop_y |-> a.y,
                            crop_width |-> a.width, crop_height |-> a.height,
                            resize_width |-> b.width, resize_height |-> b.height]>>
            ELSE IF a.type = "Grayscale" /\ b.type = "Contrast"
            THEN fused = <<[type |-> "GrayscaleContrast", contrast |-> b.c]>>
            ELSE fused = transformations

C1_Witness ==
    /\ FuseDone
    /\ transformations = <<Crop(1, 2, 3, 4), Resize(5, 6)>>
    /\ Len(fused) = 1
    /\ fused[1].type = "CropResize"

\* C2: for an unfused input chain the pass is the greedy one: writing every
\* fused variant of the output back as its pair gives the input, the output
\* is shorter by exactly the number of fused pairs, no fusable pair is left
\* in the output, and Scenario B yields [CropResize, GrayscaleContrast].
C2_FuseGreedyPass ==
    (FuseDone /\ IsUnfused(transformations)) =>
        /\ UnfuseChain(fused) = transformations
        /\ Len(fused) = Len(transformations) - NumFused(fused)
        /\ ~HasFusablePair(fused)
        /\ (transformations = ScenarioB_In => fused = ScenarioB_Out)

C2_Witness ==
    /\ FuseDone
    /\ transformations =
           <<Grayscale, Crop(0, 0, 100, 100), Resize(50, 50), Grayscale, Contrast(12)>>
    /\ Len(fused) = 3
    /\ fused[1].type = "Grayscale"

(***************************************************************************)
(* Properties of tile_hd_image.                                            *)
(***************************************************************************)
TileDone == prog = "tile" /\ tile_pc = "done"

CeilDiv(a, b) == (a + b - 1) \div b

\* The tiles holding pixel (px, py).
TilesHolding(px, py) ==
    {k \in 1..Len(tiles) :
        /\ tiles[k][1] <= px /\ px < tiles[k][1] + tiles[k][3]
        /\ tiles[k][2] <= py /\ py < tiles[k][2] + tiles[k][4]}

\* The row-major enumeration of the ceil(w/t) * ceil(h/t) clipped tiles.
RowMajorTiles(w, h, t) ==
    LET cols == CeilDiv(w, t)
        rows == CeilDiv(h, t)
    IN  [k \in 1..(cols * rows) |->
            LET r == (k - 1) \div cols
                c == (k - 1) % cols
            IN  <<c * t, r * t, Min(t, w - c * t), Min(t, h - r * t)>>]

\* C3: with W, H, T >= 1 and the cap not reached, the returned rectangles
\* cover every pixel of [0,W) x [0,H) exactly once, lie inside the image,
\* and every tile has 1 <= width <= T and 1 <= height <= T.
C3_TilesCoverExactly ==
    (/\ TileDone
     /\ width >= 1 /\ height >= 1 /\ hd.tile_size >= 1
     /\ Len(tiles) < hd.max_tiles) =>
        /\ \A px \in 0..(width - 1), py \in 0..(height - 1) :
               Cardinality(TilesHolding(px, py)) = 1
        /\ \A k \in 1..Len(tiles) :
               /\ 1 <= tiles[k][3] /\ tiles[k][3] <= hd.tile_size
               /\ 1 <= tiles[k][4] /\ tiles[k][4] <= hd.tile_size
               /\ tiles[k][1] + tiles[k][3] <= width
               /\ tiles[k][2] + tiles[k][4] <= height

\* C21: every image validate_image_for_zk accepts under the default
\* configuration needs at most 20 tiles of 256 pixels, so the default
\* HDProcessor returns all ceil(W/256) * ceil(H/256) tiles and every pixel
\* of the image lies in a returned tile.
C21_AcceptedImageFullyTiled ==
    (prog = "validate_tile" /\ validated = "Ok") =>
        /\ CeilDiv(width, 256) * CeilDiv(height, 256) <= 20
        /\ tile_pc = "done" =>
               /\ Len(tiles) = CeilDiv(width, 256) * CeilDiv(height, 256)
               /\ \A px \in 0..(width - 1), py \in 0..(height - 1) :
                      TilesHolding(px, py) # {}

\* C4: for T >= 1 and every cap, the result is the first
\* min(max_tiles, ceil(W/T) * ceil(H/T)) tiles of the row-major enumeration,
\* so it never holds more than max_tiles tiles; 640x480 with T = 256 and
\* cap 20 gives the six tiles of Scenario A.
C4_TilesRowMajorCapped ==
    (TileDone /\ hd.tile_size >= 1) =>
        /\ Len(tiles) <= hd.max_tiles
        /\ tiles = SubSeq(RowMajorTiles(width, height, hd.tile_size), 1,
                          Min(hd.max_tiles,
                              CeilDiv(width, hd.tile_size) * CeilDiv(height, hd.tile_size)))
        /\ (width = 640 /\ height = 480 /\ hd = [tile_size |-> 256, max_tiles |-> 20]) =>
               tiles = << <<0, 0, 256, 256>>, <<256, 0, 256, 256>>, <<512, 0, 128, 256>>,
                          <<0, 256, 256, 224>>, <<256, 256, 256, 224>>,
                          <<512, 256, 128, 224>> >>

(***************************************************************************)
(* Properties of the codec and of validate_image_for_zk.                   *)
(***************************************************************************)
CodecDone == prog = "codec" /\ codec_pc = "done"

SameImage(a, b) ==
    /\ a.height = b.height
    /\ a.width = b.width
    /\ \A px \in 0..(a.width - 1), py \in 0..(a.height - 1) :
           a.pixels[<<px, py>>] = b.pixels[<<px, py>>]

C22_DecodersAgree ==
    (/\ prog = "decoders"
     /\ by_matrix.status # "none"
     /\ by_elements.status # "none") =>
        /\ by_matrix.status = by_elements.status
        /\ SameImage(by_matrix.image, by_elements.image)

ValidateDone == prog = "validate" /\ validate_pc = "done"

\* C6: the call returns an error when the true pixel count width * height
\* exceeds max_size or is 0, and Ok otherwise, products of 2^32 and more
\* included.
C6_ValidateTruePixelCount ==
    ValidateDone =>
        validated = IF width * height > max_size \/ width * height = 0
                    THEN "Err" ELSE "Ok"

(***************************************************************************)
(* Properties of verify.                                                   *)
(***************************************************************************)
\* C7: verify gives Ok(true) for a valid proof, Ok(false) for a well-formed
\* but invalid one and an error for a malformed byte stream, which never
\* yields Ok(false).
C7_VerifyThreeOutcomes ==
    (prog = "verify" /\ verify_pc = "done") =>
        verified = IF IsMalformed(proof) THEN "Err"
                   ELSE IF SubSeq(proof, 1, ProofLen) = HonestProof(public_inputs)
                   THEN "Ok(true)"
                   ELSE "Ok(false)"

(***************************************************************************)
(* Properties of the recursive chain.                                      *)
(***************************************************************************)
\* Every link's output_hash is the next link's previous_hash.
HashContinuity(links) ==
    \A k \in 1..(Len(links) - 1) :
        /\ links[k + 1].previous_hash.some
        /\ links[k + 1].previous_hash.value = RecursiveSynthesize(links[k]).output_hash

\* C8: a chain is accepted if and only if every link's output_hash equals
\* the next link's previous_hash and it has at most max_chain_length links.
C8_ChainAcceptedIffIntact ==
    (prog = "chain" /\ chain_pc = "done") =>
        ((chain_result = "Ok") <=>
            (HashContinuity(chain) /\ Len(chain) <= max_chain_length))

(***************************************************************************)
(* Properties of ZKIMGCircuit::synthesize.                                 *)
(***************************************************************************)
\* The R, G, B values of the top-left min(32, H) x min(32, W) window of a
\* rectangular matrix, row-major.
WindowValues(m) ==
    LET wh == Min(32, Len(m))
        ww == IF m = << >> THEN 0 ELSE Min(32, Len(m[1]))
    IN  [k \in 1..(3 * wh * ww) |->
            m[((k - 1) \div (3 * ww)) + 1][(((k - 1) \div 3) % ww) + 1][((k - 1) % 3) + 1]]

C10_SetupSingleFlight ==
    prog = "setup" =>
        /\ \A sh \in CircuitShapeKeys : keygen_runs[sh] <= 1
        /\ \A t, u \in SetupCalls :
               (/\ setup_pc[t] = "done" /\ setup_pc[u] = "done"
                /\ requested[t] = requested[u]) => returned[t] = returned[u]
        /\ Cardinality(circuit_cache) <= Cardinality(CircuitShapeKeys)

(***************************************************************************)
(* Properties of proof aggregation.                                        *)
(***************************************************************************)
\* C11: once every worker has handed over its proof, the aggregator holds
\* the tile proofs in row-major tile order, whatever the order in which
\* the workers finished.
C11_AggregatedRowMajor ==
    (prog = "aggregator" /\ workers = {}) =>
        proofs = [t \in 1..Len(proofs) |-> TileProof(t)]

\* C12: aggregating zero tile proofs is an error: aggregate_tile_proofs on
\* an empty list returns Err, and so does ProofAggregator.aggregate called
\* before any add_proof.
C12_AggregateNothingIsError ==
    /\ (prog = "aggregate_tiles" /\ agg_pc = "done" /\ tile_proofs = << >>) =>
           aggregated.status = "Err"
    /\ (prog = "aggregator" /\ proofs = << >> /\ aggregated.status # "none") =>
           aggregated.status = "Err"

\* C13: the artifact of aggregate_tile_proofs commits to the list of tile
\* proofs: no different list (another count, another split of the same
\* bytes) yields the same artifact.
C13_AggregateIsCommitment ==
    (prog = "aggregate_tiles" /\ agg_pc = "done" /\ aggregated.status = "Ok") =>
        \A other \in TileProofLists :
            (other # tile_proofs /\ aggregate_tile_proofs(other).status = "Ok") =>
                aggregate_tile_proofs(other).bytes # aggregated.bytes

\* C23: on a ProofAggregator, verify_aggregated(p, inputs) returns true only
\* if p is the result of aggregate() over the proofs added so far;
\* aggregate() over two different added-proof lists (the list now and the
\* list after one more add_proof) gives different artifacts; aggregate and
\* verify_aggregated leave the stored list unchanged and add_proof only
\* appends.
C23_AggregatorBindsProofs ==
    /\ [](prog = "aggregator" =>
             \A t \in workers :
                 ProofAggregator_aggregate(Append(proofs, TileProof(t)))
                     # ProofAggregator_aggregate(proofs))
    /\ [][prog = "aggregator" =>
             /\ (/\ <<aggregated_proof, agg_verified>>' # <<aggregated_proof, agg_verified>>
                 /\ agg_verified' = "true") =>
                    OkBytes(aggregated_proof') = ProofAggregator_aggregate(proofs)
             /\ (\/ aggregated' # aggregated
                 \/ <<aggregated_proof, agg_verified>>' # <<aggregated_proof, agg_verified>>) =>
                    proofs' = proofs
             /\ proofs' # proofs =>
                    /\ Len(proofs') = Len(proofs) + 1
                    /\ SubSeq(proofs', 1, Len(proofs)) = proofs]_vars

(***************************************************************************)
(* Properties of key persistence.                                          *)
(***************************************************************************)
\* C14: load returns a key only when the stored blob was saved for the
\* same k and circuit shape as the loading proof system: load after save
\* in the same system returns the saved key; a blob saved under another k
\* or shape, or a damaged blob, gives an error.
C14_LoadDetectsMismatch ==
    (prog = "persist" /\ key_pc = "loaded" /\ store.exists) =>
        IF /\ store.bytes = serde_json_to_vec(key_kind, key_saver)
           /\ key_saver = key_loader
        THEN loaded = [status |-> "Ok", key |-> KeyOf(key_kind, key_saver)]
        ELSE loaded.status = "Err"

(***************************************************************************)
(* Properties of the links of a recursive chain.                           *)
(***************************************************************************)
\* C15: in every chain that was constructed and proved, the base link has
\* recursion_depth 0 and no previous proof, each later link has depth one
\* more than its predecessor and carries a previous proof and a previous
\* hash, no depth exceeds max_chain_length, and each link's depth is the
\* value it exposes.
C15_ChainDepthDiscipline ==
    (prog = "chain" /\ chain_pc = "done" /\ chain_result = "Ok") =>
        /\ chain[1].recursion_depth = 0
        /\ ~chain[1].previous_proof.some
        /\ \A k \in 2..Len(chain) :
               /\ chain[k].recursion_depth = chain[k - 1].recursion_depth + 1
               /\ chain[k].previous_proof.some
               /\ chain[k].previous_hash.some
        /\ \A k \in 1..Len(chain) :
               /\ chain[k].recursion_depth <= max_chain_length
               /\ RecursiveSynthesize(chain[k]).exposed_depth = chain[k].recursion_depth

(***************************************************************************)
(* Properties of the circuit's shape.                                      *)
(***************************************************************************)
\* C16: the number of hash absorption steps synthesize lays out for a
\* witness is the number it lays out for the key-generation circuit
\* without_witnesses(), whatever the height and width of the witness.
C16_ShapeIndependentOfWitness ==
    (prog = "circuit" /\ circuit_pc = "done") =>
        Len(input_digest.poseidon) + Len(output_digest.poseidon)
            = AbsorptionSteps(without_witnesses(circuit))

(***************************************************************************)
(* Properties of calculate_poseidon_image_hash and chunk_image.            *)
(***************************************************************************)
SampleDone == prog = "sample_hash" /\ util_pc = "done"

\* The positions {0, s, 2s, ...} below n.
Strided(n, s) == {p \in 0..(n - 1) : p % s = 0}

\* The bytes of the pixels at the strided rows and columns of the image,
\* row-major, three channels a pixel, each channel little-endian.
ExpectedHashInput(img, sy, sx) ==
    LET nc == Cardinality(Strided(img.width, sx))
        nr == Cardinality(Strided(img.height, sy))
    IN  [j \in 1..(nr * nc * 3 * FpBytes) |->
            LET p == (j - 1) \div (3 * FpBytes)
                channel == ((j - 1) \div FpBytes) % 3
                byte == (j - 1) % FpBytes
                value == img.pixels[<<(p % nc) * sx, (p \div nc) * sy>>][channel + 1]
            IN  (value \div (256 ^ byte)) % 256]

\* C17 as stated: for H, W, n >= 1 the hash is fed exactly the pixels at
\* rows {0, sy, ...} < H and columns {0, sx, ...} < W, row-major, with
\* sy = max(1, floor(H/n)), sx = max(1, floor(W/n)), and at most n rows
\* and at most n columns are sampled.
C17_SampledAtMostN ==
    (SampleDone /\ util_image.height >= 1 /\ util_image.width >= 1 /\ size_arg >= 1) =>
        LET sy == IF util_image.height \div size_arg >= 1
                  THEN util_image.height \div size_arg ELSE 1
            sx == IF util_image.width \div size_arg >= 1
                  THEN util_image.width \div size_arg ELSE 1
        IN  /\ util_status = "Ok"
            /\ hash_input = ExpectedHashInput(util_image, sy, sx)
            /\ Cardinality(Strided(util_image.height, sy)) <= size_arg
            /\ Cardinality(Strided(util_image.width, sx)) <= size_arg

\* C17 as amended: the same pixels are fed to the hash, and fewer than
\* 2n rows and fewer than 2n columns are sampled.
C17_SampledBelowTwiceN ==
    (SampleDone /\ util_image.height >= 1 /\ util_image.width >= 1 /\ size_arg >= 1) =>
        LET sy == IF util_image.height \div size_arg >= 1
                  THEN util_image.height \div size_arg ELSE 1
            sx == IF util_image.width \div size_arg >= 1
                  THEN util_image.width \div size_arg ELSE 1
        IN  /\ util_status = "Ok"
            /\ hash_input = ExpectedHashInput(util_image, sy, sx)
            /\ Cardinality(Strided(util_image.height, sy)) <= 2 * size_arg - 1
            /\ Cardinality(Strided(util_image.width, sx)) <= 2 * size_arg - 1

\* A 5x4 image sampled with n = 2: rows 0 and 2, columns 0, 2 and 4.
C17_Witness ==
    /\ SampleDone
    /\ util_image.width = 5
    /\ util_image.height = 4
    /\ size_arg = 2
    /\ Len(hash_input) = 2 * 3 * 3 * FpBytes

\* C18: chunk_image and calculate_poseidon_image_hash on an image of zero
\* height or zero width, or with a size argument of 0, end in an error
\* outcome and not in a panic or an ordinary result; so does tile_hd_image
\* with tile_size 0.
C18_DegenerateInputsAreErrors ==
    /\ (/\ prog \in {"sample_hash", "chunk"}
        /\ util_pc = "done"
        /\ (util_image.height = 0 \/ util_image.width = 0 \/ size_arg = 0)) =>
           util_status = "Err"
    /\ (prog = "tile" /\ hd.tile_size = 0 /\ tile_pc \in {"done", "panic"}) =>
           tile_pc = "err"

(***************************************************************************)
(* Properties of the in-circuit digest.                                    *)
(***************************************************************************)
\* The top-left min(32, H) x min(32, W) part of a rectangular matrix.
WindowOf(m) ==
    [r \in 1..Min(32, Len(m)) |-> SubSeq(m[r], 1, Min(32, Len(m[r])))]

OutsidePixel == <<9, 9, 9>>

\* Matrices that differ from m beyond row 32 or column 32 only: a row or
\* a column more, or another pixel in the last row or column.
OutsideVariants(m) ==
    (IF Len(m) >= 32
     THEN {Append(m, [c \in 1..Len(m[1]) |-> OutsidePixel])}
     ELSE {})
    \cup (IF m # << >> /\ Len(m[1]) >= 32
          THEN {[r \in 1..Len(m) |-> Append(m[r], OutsidePixel)]}
          ELSE {})
    \cup (IF Len(m) > 32
          THEN {[m EXCEPT ![Len(m)][1] = OutsidePixel]}
          ELSE {})
    \cup (IF m # << >> /\ Len(m[1]) > 32
          THEN {[m EXCEPT ![1][Len(m[1])] = OutsidePixel]}
          ELSE {})

\* C19: the digest hash_image binds is the digest of the window's R, G, B
\* values in row-major order, and every matrix with the same window
\* contents, whatever lies outside the window, has the same digest.
C19_DigestOfWindowOnly ==
    (prog = "circuit" /\ circuit_pc = "done") =>
        /\ input_digest = [poseidon |-> WindowValues(circuit.image_pixels)]
        /\ \A other \in CircuitImages \cup OutsideVariants(circuit.image_pixels) :
               WindowOf(other) = WindowOf(circuit.image_pixels) =>
                   hash_image([circuit EXCEPT !.image_pixels = other]) = input_digest

\* A 34x33 witness, of which a variant differing outside the window exists.
C19_Witness ==
    /\ prog = "circuit"
    /\ circuit_pc = "done"
    /\ Len(circuit.image_pixels) = 34
    /\ Len(circuit.image_pixels[1]) = 33
    /\ \E other \in OutsideVariants(circuit.image_pixels) :
           /\ other # circuit.image_pixels
           /\ WindowOf(other) = WindowOf(circuit.image_pixels)
    /\ Len(input_digest.poseidon) = 3 * 32 * 32

\* C24: for every witness matrix and every transformation parameter list,
\* apply_transformations returns the input pixels unchanged and the output
\* digest bound to instance row 1 equals the input digest bound to row 0;
\* the circuit is satisfied only by instances whose two rows are equal, and
\* another parameter list changes neither the digests nor the outcome.
C24_OutputDigestIsInputDigest ==
    (prog = "circuit" /\ circuit_pc = "done") =>
        /\ transformed_pixels = circuit.image_pixels
        /\ output_digest = input_digest
        /\ satisfied => instance[1] = instance[2]
        /\ \A params \in TransformationParams :
               LET c == [circuit EXCEPT !.transformation_params = params]
                   out == hash_image_output(c, apply_transformations(c))
               IN  /\ hash_image(c) = input_digest
                   /\ out = output_digest
                   /\ constrain_instance(hash_image(c), out, instance) = satisfied

\* A 2x3 witness with a parameter list, satisfied by an instance whose
\* rows are both its digest.
C24_Witness ==
    /\ prog = "circuit"
    /\ circuit_pc = "done"
    /\ circuit.transformation_params = <<1>>
    /\ Len(circuit.image_pixels) = 2
    /\ satisfied
    /\ instance[1] = instance[2]
    /\ output_digest = input_digest
    /\ Len(output_digest.poseidon) = 18

(***************************************************************************)
(* Properties of a repeated fuse_operations.                               *)
(***************************************************************************)
\* C20: a pass of fuse_operations leaves no adjacent (Crop, Resize) or
\* (Grayscale, Contrast) pair in its output, and a second pass over the
\* output of the first returns it unchanged, for every chain over the 16
\* variants.
C20_FuseIdempotent ==
    FuseDone =>
        /\ ~HasFusablePair(fused)
        /\ (pass = 2 => (fused = first_fused /\ transformations = first_fused))

C20_Witness ==
    /\ FuseDone
    /\ pass = 2
    /\ first_transformations =
           <<Grayscale, Crop(0, 0, 100, 100), Resize(50, 50), Grayscale, Contrast(12)>>
    /\ Len(fused) = 3
    /\ fused[2].type = "CropResize"

====
